---- MODULE Spec2Model ----
(***************************************************************************)
(* State fusion of the EmptyEpsilon integration: the RPC client's typed    *)
(* queries (ee_api.py), the pause Inferencer and the fusion cycle          *)
(* (coordinator.py), the telemetry listener (sacn_listener.py) and the     *)
(* entities' view of the published snapshot (entity.py).                   *)
(*                                                                         *)
(* Units: the monotonic clock counts half seconds, scenario time counts    *)
(* tenths of a second, a decoded channel value is kept times 255.          *)
(***************************************************************************)
EXTENDS Integers, Sequences, FiniteSets, TLC

\* ---------------------------------------------------------------- bounds
\* Last instant of the monotonic clock the fusion cycles are explored to
\* (half seconds).
MaxTime == 2
\* Last instant the Inferencer's samples are explored to (half seconds).
MaxSampleTime == 6
\* Largest scenario time the server reports (tenths of a second).
MaxScenario == 4
\* Last instant the telemetry feed is explored to (half seconds).
MaxSacnTime == 9
\* Longest payload of which every content is explored.
MaxDmxLen == 2
\* Longest free-text parameter of a mutating operation.
MaxStrLen == 2
\* Datagrams the listener's tasks are explored with.
MaxPackets == 3
\* Last instant the pause switch is explored to (half seconds).
MaxSwitchTime == 3
\* Delayed refreshes of the pause switch pending at one time.
MaxPending == 1

\* ------------------------------------------------------ program constants
\* min_elapsed = 1.0 s, in half seconds.
MinElapsed == 2
\* delta_scenario < 0.2 s counts as paused, in tenths of a second.
PauseThreshold == 2
\* running samples needed to leave paused.
RunningNeeded == 2
\* _sacn_refresh_interval = 2.0 s, in half seconds.
SacnRefreshInterval == 4
\* DEFAULT_SACN_UNIVERSE
Universe == 2
\* a DMX slot is one byte
MaxByte == 255

GAME_STATUS_SETUP == "setup"
GAME_STATUS_PLAYING == "playing"
GAME_STATUS_PAUSED == "paused"
GAME_STATUS_GAME_OVER_VICTORY == "game_over_victory"
GAME_STATUS_GAME_OVER_DEFEAT == "game_over_defeat"

\* ------------------------------------------------------------ Python values
\* Optional values: None is the empty tuple, a value v is <<v>>.
None == <<>>
Some(v) == <<v>>

\* A dict with string keys is a function on its key set; {} is the empty one.
EmptyDict == <<>>
Put(d, k, v) == [x \in (DOMAIN d) \cup {k} |-> IF x = k THEN v ELSE d[x]]
\* dict.get(k): None when the key is missing
Get(d, k, default) == IF k \in DOMAIN d THEN d[k] ELSE default

\* ------------------------------------------------------------- reply texts
\* A reply text is the sequence of its "|"-separated fields.  A field is a
\* decimal numeral (Num(n) is the numeral of n/10, e.g. Num(15) is "1.5") or
\* a literal string.
Num(n) == [s |-> "num", n |-> n]
Str(t) == [s |-> t, n |-> 0]
Plain(f) == <<f>>

\* str.strip(): leading and trailing white space removed
StripWs(f) ==
    IF f.s = " " THEN Str("")
    ELSE IF f.s = " true " THEN Str("true")
    ELSE f

\* str.strip('"\''): leading and trailing quote characters removed
StripQuotes(f) ==
    IF f.s = "\"true\"" THEN Str("true")
    ELSE IF f.s = "\"Human Navy\"" THEN Str("Human Navy")
    ELSE IF f.s = "\"\"" THEN Str("")
    ELSE f

\* str.lower()
Lower(f) ==
    IF f.s = "True" THEN Str("true")
    ELSE IF f.s = "TRUE" THEN Str("true")
    ELSE IF f.s = "Human Navy" THEN Str("human navy")
    ELSE IF f.s = "Kraylor" THEN Str("kraylor")
    ELSE IF f.s = "Nil" THEN Str("nil")
    ELSE f

\* "human" in text
ContainsHuman(f) == f.s \in {"human navy", "human"}

\* The whole text as one string; a text with a "|" in it equals none of the
\* keywords the queries compare with and is no numeral.
Whole(r) == IF Len(r) = 1 THEN r[1] ELSE Str("a|b")

\* bool(text) and bool(text.strip())
NonBlank(r) == StripWs(Whole(r)).s # ""

\* float(text): a numeral gives its value and "inf" gives infinity, anything
\* else raises ValueError
IsInf(f) == StripWs(f).s = "inf"
IsNumeral(f) == StripWs(f).s = "num" \/ IsInf(f)
FloatOf(f) == IF IsInf(f) THEN "inf" ELSE StripWs(f).n

\* int(x) truncates toward zero (x in tenths)
IntOf(x) == IF x >= 0 THEN x \div 10 ELSE -((-x) \div 10)

\* ---------------------------------------------------------------- exec_lua
\* text.strip().startswith("{")
StartsWithBrace(f) ==
    StripWs(f).s \in {"{\"ERROR\": \"no game\"}", "{\"result\": 1}", "{oops"}

\* json.loads(text): the keys of the object, None when it raises ValueError
JsonKeys(f) ==
    IF StripWs(f).s = "{\"ERROR\": \"no game\"}" THEN Some({"ERROR"})
    ELSE IF StripWs(f).s = "{\"result\": 1}" THEN Some({"result"})
    ELSE None

\* The body is a JSON object with an "ERROR" key
IsErrorJson(r) ==
    /\ StartsWithBrace(Whole(r))
    /\ JsonKeys(Whole(r)) # None
    /\ "ERROR" \in JsonKeys(Whole(r))[1]

\* The outcome of an awaited call: the exception raised ("" for none) and
\* the value returned.
Return(v) == [exc |-> "", val |-> v]
Raise(e) == [exc |-> e, val |-> None]

\* exec_lua: resp is what the transport delivers: a failure of the transport
\* itself or a status and a body.
ExecLua(resp) ==
    IF resp.transport = "ClientError" THEN Raise("EEAPIError")
    ELSE IF resp.transport = "TimeoutError" THEN Raise("TimeoutError")
    ELSE IF resp.status # 200 THEN Raise("EEAPIError")
    ELSE IF IsErrorJson(resp.text) THEN Raise("EEAPIError")
    ELSE Return(resp.text)

\* ----------------------------------------------------------- typed queries
GetScenarioTime(x) ==
    IF x.exc = "EEAPIError" THEN Return(None)
    ELSE IF x.exc # "" THEN Raise(x.exc)
    ELSE IF ~NonBlank(x.val) THEN Return(None)
    ELSE IF ~IsNumeral(Whole(x.val)) THEN Return(None)
    ELSE Return(Some(FloatOf(Whole(x.val))))

GetHasGame(x) ==
    IF x.exc = "EEAPIError" THEN Return(FALSE)
    ELSE IF x.exc # "" THEN Raise(x.exc)
    ELSE Return(Lower(StripQuotes(StripWs(Whole(x.val)))).s = "true")

\* int(float(r.strip())) if r and r.strip() else 0, ValueError gives 0;
\* int() of an infinity raises OverflowError, which no clause catches
CountReply(x) ==
    IF x.exc = "EEAPIError" THEN Return(0)
    ELSE IF x.exc # "" THEN Raise(x.exc)
    ELSE IF ~NonBlank(x.val) THEN Return(0)
    ELSE IF ~IsNumeral(Whole(x.val)) THEN Return(0)
    ELSE IF IsInf(Whole(x.val)) THEN Raise("OverflowError")
    ELSE Return(IntOf(FloatOf(Whole(x.val))))

GetPlayerShipCount(x) == CountReply(x)

GetVictoryFaction(x) ==
    IF x.exc = "EEAPIError" THEN Return(None)
    ELSE IF x.exc # "" THEN Raise(x.exc)
    ELSE LET raw == StripQuotes(StripWs(Whole(x.val)))
         IN  IF raw.s = "" \/ Lower(raw).s \in {"nil", "null", "none"}
             THEN Return(None)
             ELSE Return(Some(raw.s))

IsPaused(x) ==
    IF x.exc = "EEAPIError" THEN Return(FALSE)
    ELSE IF x.exc # "" THEN Raise(x.exc)
    ELSE Return(StripQuotes(Lower(StripWs(Whole(x.val)))).s = "true")

GetTotalObjects(x) == CountReply(x)

GetEnemyShipCount(x) == CountReply(x)

GetFriendlyStationCount(x) == CountReply(x)

\* (s.strip() or None)
StrOrNone(f) == IF StripWs(f).s = "" THEN None ELSE Some(StripWs(f).s)

\* int(float(parts[i])) raises OverflowError
AmmoOverflows(parts, i) ==
    i <= Len(parts) /\ parts[i].s # "" /\ IsInf(parts[i])

\* int(float(parts[i])) if i < len(parts) and parts[i] else 0, ValueError gives 0
AmmoOf(parts, i) ==
    IF i > Len(parts) THEN 0
    ELSE IF parts[i].s = "" THEN 0
    ELSE IF ~IsNumeral(parts[i]) THEN 0
    ELSE IntOf(FloatOf(parts[i]))

\* int(float(rep_raw)) raises OverflowError
ReputationOverflows(parts) ==
    Len(parts) >= 9 /\ IsInf(StripQuotes(StripWs(parts[9])))

\* the reputation field, parts[8], when the reply has nine fields
ReputationOf(parts) ==
    IF Len(parts) < 9 THEN None
    ELSE LET rep_raw == StripQuotes(StripWs(parts[9]))
         IN  IF rep_raw.s = "" \/ Lower(rep_raw).s \in {"nil", "null", "none"}
             THEN Some(0)
             ELSE IF ~IsNumeral(rep_raw) THEN Some(0)
             ELSE Some(IntOf(FloatOf(rep_raw)))

EmptyShipInfo ==
    [callsign |-> None, ship_type |-> None, sector |-> None, homing |-> None,
     nuke |-> None, emp |-> None, mine |-> None, hvli |-> None,
     reputation |-> None]

GetPrimaryShipInfo(x) ==
    IF x.exc = "EEAPIError" THEN Return(EmptyShipInfo)
    ELSE IF x.exc # "" THEN Raise(x.exc)
    ELSE IF Len(x.val) < 2 THEN Return(EmptyShipInfo)
    ELSE IF \E i \in 4..8 : AmmoOverflows(x.val, i) THEN Raise("OverflowError")
    ELSE IF ReputationOverflows(x.val) THEN Raise("OverflowError")
    ELSE LET parts == x.val
         IN  Return([callsign |-> IF parts[1].s = "" THEN None
                                  ELSE StrOrNone(StripQuotes(StripWs(parts[1]))),
                     ship_type |-> StrOrNone(parts[2]),
                     sector |-> IF Len(parts) > 2 THEN StrOrNone(parts[3]) ELSE None,
                     homing |-> Some(AmmoOf(parts, 4)),
                     nuke |-> Some(AmmoOf(parts, 5)),
                     emp |-> Some(AmmoOf(parts, 6)),
                     mine |-> Some(AmmoOf(parts, 7)),
                     hvli |-> Some(AmmoOf(parts, 8)),
                     reputation |-> ReputationOf(parts)])

\* ------------------------------------------------------ mutating operations
\* A script and a free-text parameter are sequences of items: a backslash, a
\* double quote, or a run of other characters.
BS == "\\"
QT == "\""

\* str.replace(old, new), old being one character
RECURSIVE Replace(_, _, _)
Replace(s, old, new) ==
    IF s = <<>> THEN <<>>
    ELSE (IF Head(s) = old THEN new ELSE <<Head(s)>>)
         \o Replace(Tail(s), old, new)

\* (s or default)
OrDefault(s, default) == IF s = <<>> THEN default ELSE s

\* (s or "").replace("\\", "\\\\").replace('"', '\\"')
EscapeQuotesFirst(s) ==
    Replace(Replace(OrDefault(s, <<>>), QT, <<BS, QT>>), BS, <<BS, BS>>)
Escape(s) ==
    Replace(Replace(OrDefault(s, <<>>), BS, <<BS, BS>>), QT, <<BS, QT>>)

\* "{escaped}" inside an f-string
Quoted(escaped) == <<QT>> \o escaped \o <<QT>>

\* a piece of an f-string without backslash or quote
Lit(t) == <<t>>

\* {x},{y}
Position(x, y) == <<ToString(x), ",", ToString(y)>>

\* min(100, float(value)) only
ClampUpperOnly(value) == IF value < 100 THEN value ELSE 100

\* max(0, min(100, float(value)))
Clamp(value) ==
    LET m == IF value < 100 THEN value ELSE 100
    IN  IF m > 0 THEN m ELSE 0

\* What a mutating operation does: the script it sends (None when it sends
\* none), the escaped texts it interpolates and the numbers it interpolates.
Sent(script, escaped, numbers) ==
    [script |-> Some(script), escaped |-> escaped, numbers |-> numbers]

GlobalMessageScript(message) ==
    LET escaped == Escape(message)
    IN  Sent(Lit("globalMessage(") \o Quoted(escaped) \o Lit(")"),
             <<escaped>>, <<>>)

VictoryScript(faction) ==
    LET escaped == Escape(OrDefault(faction, Lit("Human Navy")))
    IN  Sent(Lit("victory(") \o Quoted(escaped) \o Lit(")"), <<escaped>>, <<>>)

SpawnPlayerShipScript(template, callsign, faction, x, y) ==
    LET t == Escape(OrDefault(template, Lit("Atlantis")))
        c == Escape(OrDefault(callsign, Lit("Epsilon")))
        f == Escape(OrDefault(faction, Lit("Human Navy")))
    IN  Sent(Lit("PlayerSpaceship():setFaction(") \o Quoted(f)
             \o Lit("):setTemplate(") \o Quoted(t)
             \o Lit("):setCallSign(") \o Quoted(c)
             \o Lit("):setPosition(") \o Position(x, y) \o Lit(")"),
             <<f, t, c>>, <<x, y>>)

SpawnCpuShipScript(template, faction, x, y, order) ==
    LET t == Escape(OrDefault(template, Lit("Adder MK3")))
        f == Escape(OrDefault(faction, Lit("Kraylor")))
        base == Lit("CpuShip():setFaction(") \o Quoted(f)
                \o Lit("):setTemplate(") \o Quoted(t)
                \o Lit("):setPosition(") \o Position(x, y) \o Lit(")")
    IN  Sent(base \o (IF order = "roam" THEN Lit(":orderRoaming()")
                      ELSE Lit(":orderIdle()")),
             <<f, t>>, <<x, y>>)

SpawnStationScript(template, faction, x, y) ==
    LET t == Escape(OrDefault(template, Lit("Small Station")))
        f == Escape(OrDefault(faction, Lit("Human Navy")))
    IN  Sent(Lit("SpaceStation():setFaction(") \o Quoted(f)
             \o Lit("):setTemplate(") \o Quoted(t)
             \o Lit("):setPosition(") \o Position(x, y) \o Lit(")"),
             <<f, t>>, <<x, y>>)

\* for i=-1,99 do local s=getPlayerShip(i); if s and s:getCallSign()=="{c}"
\* then ...; break end end
ForShip(c, body) ==
    Lit("for i=-1,99 do local s=getPlayerShip(i); if s and s:getCallSign()==")
    \o Quoted(c) \o Lit(" then ") \o body \o Lit("; break end end")

SendCommsMessageScript(callsign, message) ==
    LET c == Escape(callsign)
        m == Escape(message)
    IN  Sent(ForShip(c, Lit("s:addCustomMessage(") \o Quoted(Lit("gm"))
                        \o Lit(",") \o Quoted(m) \o Lit(")")),
             <<c, m>>, <<>>)

ModifyHullScript(callsign, value) ==
    LET c == Escape(callsign)
        v == Clamp(value)
    IN  Sent(ForShip(c, Lit("s:setHull(") \o Lit(ToString(v)) \o Lit(")")),
             <<c>>, <<v>>)

ModifyShieldsScript(callsign, front, rear) ==
    LET c == Escape(callsign)
        f == Clamp(front)
        r == Clamp(rear)
    IN  Sent(ForShip(c, Lit("s:setShields(") \o Lit(ToString(f)) \o Lit(",")
                        \o Lit(ToString(r)) \o Lit(")")),
             <<c>>, <<f, r>>)

WeaponNames == <<"Homing", "Nuke", "EMP", "Mine", "HVLI">>

\* the updates of give_weapons from the i-th weapon on, joined by " "
RECURSIVE WeaponUpdates(_, _, _)
WeaponUpdates(counts, i, first) ==
    IF i > Len(WeaponNames) THEN <<>>
    ELSE IF counts[i] = 0 THEN WeaponUpdates(counts, i + 1, first)
    ELSE (IF first THEN <<>> ELSE Lit(" "))
         \o Lit("s:setWeaponStorage(") \o Quoted(Lit(WeaponNames[i]))
         \o Lit(", (s:getWeaponStorage(") \o Quoted(Lit(WeaponNames[i]))
         \o Lit(") or 0)+") \o Lit(ToString(counts[i])) \o Lit(")")
         \o WeaponUpdates(counts, i + 1, FALSE)

GiveWeaponsScript(callsign, counts) ==
    LET c == Escape(callsign)
        updates == WeaponUpdates(counts, 1, TRUE)
    IN  IF updates = <<>>
        THEN [script |-> None, escaped |-> <<c>>, numbers |-> <<>>]
        ELSE Sent(ForShip(c, updates), <<c>>, <<>>)

\* ---------------------------------------------------------- the Inferencer
\* The Inferencer's fields as one record
InferState(lst, lat, lip, rc) ==
    [last_scenario_time |-> lst, last_scenario_time_at |-> lat,
     last_inferred_paused |-> lip, running_count |-> rc]

\* The fields as __init__ and the no-game branch of the cycle set them; the
\* time stamp is left as it is.
ResetInferStateKeepsInferred(s) ==
    [s EXCEPT !.last_scenario_time = None, !.running_count = 0]
ResetInferState(s) ==
    [s EXCEPT !.last_scenario_time = None, !.last_inferred_paused = None,
              !.running_count = 0]

\* self._last_inferred_paused if self._last_inferred_paused is not None else False
StickyValueAlwaysFalse(lip) == FALSE
StickyValue(lip) == IF lip # None THEN lip[1] ELSE FALSE

\* the guard of the recomputing branch
ShouldRecomputeAnyElapsed(s, t) == s.last_scenario_time # None
ShouldRecompute(s, t) ==
    /\ s.last_scenario_time # None
    /\ t - s.last_scenario_time_at >= MinElapsed

\* raw_paused = delta_scenario < 0.2
RawPausedOnlyBackwards(delta_scenario) == delta_scenario < 0
RawPaused(delta_scenario) == delta_scenario < PauseThreshold

\* Hysteresis: the new counter and the inferred value
HysteresisNoDelay(raw_paused, lip, rc) ==
    IF raw_paused THEN [running_count |-> 0, paused |-> TRUE]
    ELSE IF lip = Some(TRUE)
         THEN [running_count |-> rc + 1, paused |-> rc + 1 < 1]
         ELSE [running_count |-> rc, paused |-> FALSE]
HysteresisUnknownAsPaused(raw_paused, lip, rc) ==
    IF raw_paused THEN [running_count |-> 0, paused |-> TRUE]
    ELSE IF lip # Some(FALSE)
         THEN [running_count |-> rc + 1, paused |-> rc + 1 < RunningNeeded]
         ELSE [running_count |-> rc, paused |-> FALSE]
Hysteresis(raw_paused, lip, rc) ==
    IF raw_paused THEN [running_count |-> 0, paused |-> TRUE]
    ELSE IF lip = Some(TRUE)
         THEN [running_count |-> rc + 1, paused |-> rc + 1 < RunningNeeded]
         ELSE [running_count |-> rc, paused |-> FALSE]

\* scenario_time is None: the stored sample and the counter are dropped
NullSampleKeepsCount(s) == [s EXCEPT !.last_scenario_time = None]
NullSample(s) == [s EXCEPT !.last_scenario_time = None, !.running_count = 0]

\* _infer_paused(scenario_time) called at time t in state s: the value it
\* returns and the state it leaves
InferPaused(scenario_time, t, s) ==
    IF scenario_time = None
    THEN [ret |-> StickyValue(s.last_inferred_paused), state |-> NullSample(s)]
    ELSE IF ShouldRecompute(s, t)
    THEN LET delta_scenario == scenario_time[1] - s.last_scenario_time[1]
             h == Hysteresis(RawPaused(delta_scenario), s.last_inferred_paused,
                             s.running_count)
         IN  [ret |-> h.paused,
              state |-> InferState(scenario_time, t, Some(h.paused), h.running_count)]
    ELSE [ret |-> StickyValue(s.last_inferred_paused),
          state |-> [s EXCEPT !.last_scenario_time = scenario_time,
                              !.last_scenario_time_at = t]]

\* ------------------------------------------------------------ fusion cycle
\* data = {"sacn": ..., "http": {}, "game_status": None}
NewDataWithoutSacn(sacn) ==
    [sacn |-> EmptyDict, http |-> EmptyDict, game_status |-> "None"]
NewData(sacn) == [sacn |-> sacn, http |-> EmptyDict, game_status |-> "None"]

\* Derive game_status from the victory faction and the paused fact
DeriveGameStatusSetupDefault(victory, paused) ==
    IF victory # None
    THEN IF ContainsHuman(Lower(Str(victory[1])))
         THEN GAME_STATUS_GAME_OVER_VICTORY ELSE GAME_STATUS_GAME_OVER_DEFEAT
    ELSE IF paused THEN GAME_STATUS_PAUSED
    ELSE GAME_STATUS_SETUP
DeriveGameStatusPausedFirst(victory, paused) ==
    IF paused THEN GAME_STATUS_PAUSED
    ELSE IF victory # None
    THEN IF ContainsHuman(Lower(Str(victory[1])))
         THEN GAME_STATUS_GAME_OVER_VICTORY ELSE GAME_STATUS_GAME_OVER_DEFEAT
    ELSE GAME_STATUS_PLAYING
DeriveGameStatus(victory, paused) ==
    IF victory # None
    THEN IF ContainsHuman(Lower(Str(victory[1])))
         THEN GAME_STATUS_GAME_OVER_VICTORY ELSE GAME_STATUS_GAME_OVER_DEFEAT
    ELSE IF paused THEN GAME_STATUS_PAUSED
    ELSE GAME_STATUS_PLAYING

\* the has_game = False branch: every game-dependent fact zeroed
NoGameData(d) ==
    [d EXCEPT !.game_status = GAME_STATUS_SETUP,
              !.http = [x \in (DOMAIN d.http) \cup
                               {"scenario_time", "player_ship_count", "paused",
                                "victory_faction", "total_objects",
                                "enemy_ship_count", "friendly_station_count",
                                "primary_ship"} |->
                          CASE x = "scenario_time" -> None
                            [] x = "player_ship_count" -> 0
                            [] x = "paused" -> FALSE
                            [] x = "victory_faction" -> None
                            [] x = "total_objects" -> 0
                            [] x = "enemy_ship_count" -> 0
                            [] x = "friendly_station_count" -> 0
                            [] x = "primary_ship" -> EmptyDict
                            [] OTHER -> d.http[x]]]

\* The except clauses of _async_update_data: what the cycle does with an
\* exception exc raised while data is d: return a snapshot or raise
\* UpdateFailed.
HandleExceptionSwallowAll(d, exc) ==
    [raised |-> FALSE,
     data |-> [d EXCEPT !.http = Put(Put(d.http, "server_reachable", FALSE),
                                     "has_game", FALSE),
                        !.game_status = GAME_STATUS_SETUP]]
HandleException(d, exc) ==
    IF exc = "EEAPIError"
    THEN [raised |-> FALSE,
          data |-> [d EXCEPT !.http = Put(Put(d.http, "server_reachable", FALSE),
                                          "has_game", FALSE),
                             !.game_status = GAME_STATUS_SETUP]]
    ELSE [raised |-> TRUE,
          data |-> [d EXCEPT !.http = Put(d.http, "server_reachable", FALSE)]]

\* --------------------------------------------------------------- telemetry
SACN_CHANNEL_NAMES ==
    <<"hull", "frontShield", "rearShield", "energy", "redAlert", "yellowAlert",
      "shieldsUp", "docked", "docking", "hasShip", "impulse", "warp">>

\* (channel number, min_out, max_out) of each row of the table
SACN_CHANNEL_SPEC ==
    [i \in 1..12 |-> [ch |-> i, min_out |-> 0, max_out |-> 1]]

ChannelNames == {SACN_CHANNEL_NAMES[i] : i \in DOMAIN SACN_CHANNEL_NAMES}

\* min_out + (raw / 255.0) * max_out, times 255
DecodeDmxValueFromZero(raw, min_out, max_out) == min_out * MaxByte + raw * max_out

\* min_out + (raw / 255.0) * (max_out - min_out), times 255
DecodeDmxValue(raw, min_out, max_out) == min_out * MaxByte + raw * (max_out - min_out)

\* self._data = {name: 0.0 for name in SACN_CHANNEL_NAMES}
InitialSacnData == [name \in ChannelNames |-> 0]

\* new_data of _packet_received: the channels the payload covers, decoded
NewSacnData(dmx) ==
    LET covered == {i \in DOMAIN SACN_CHANNEL_SPEC : SACN_CHANNEL_SPEC[i].ch <= Len(dmx)}
    IN  [name \in {SACN_CHANNEL_NAMES[i] : i \in covered} |->
            LET i == CHOOSE j \in covered : SACN_CHANNEL_NAMES[j] = name
            IN  DecodeDmxValue(dmx[SACN_CHANNEL_SPEC[i].ch],
                               SACN_CHANNEL_SPEC[i].min_out,
                               SACN_CHANNEL_SPEC[i].max_out)]

\* dict.update
UpdateReplaces(d, new) == new
Update(d, new) == [k \in (DOMAIN d) \cup (DOMAIN new) |->
                      IF k \in DOMAIN new THEN new[k] ELSE d[k]]

\* the throttle of on_sacn_data
SacnRefreshDueAlways(t, last) == TRUE
SacnRefreshDue(t, last) == t - last >= SacnRefreshInterval

\* on_sacn_data called at time t: the time stamp it leaves and whether it
\* requests a refresh
OnSacnData(t, last) ==
    IF SacnRefreshDue(t, last) THEN [last |-> t, request |-> TRUE]
    ELSE [last |-> last, request |-> FALSE]

\* the early returns of _packet_received: the packet is processed
AcceptedAnyUniverse(universe, new_data) == DOMAIN new_data # {}
Accepted(universe, new_data) == universe = Universe /\ DOMAIN new_data # {}

\* self._callback(self.get_data()): the map the callback is given, old being
\* the map before the packet and updated the map after it
CallbackArgStale(old, updated) == old
CallbackArg(old, updated) == updated

\* _packet_received(universe, dmx) at time t, the map being d and the
\* coordinator's time stamp last; raises tells whether the callback raises
\* (it then has done nothing).  Gives the map and the time stamp left, whether
\* a refresh is requested, the calls of the callback and its argument.
PacketEffect(universe, dmx, d, t, last, raises) ==
    LET new_data == NewSacnData(dmx)
        updated == Update(d, new_data)
        cb == IF raises THEN [last |-> last, request |-> FALSE]
              ELSE OnSacnData(t, last)
    IN  IF ~Accepted(universe, new_data)
        THEN [data |-> d, last |-> last, request |-> FALSE, calls |-> 0,
              arg |-> None]
        ELSE [data |-> updated, last |-> cb.last, request |-> cb.request,
              calls |-> 1, arg |-> Some(CallbackArg(d, updated))]

\* ------------------------------------------------------------- the switch
\* call_later(1.5, ...), in half seconds
DelayedRefreshDelay == 3

\* _handle_coordinator_update: the optimistic value is dropped
HandleCoordinatorUpdate(optimistic) == None

\* is_on, snapshot being coordinator.data
IsOn(optimistic, snapshot) ==
    IF optimistic # None THEN optimistic[1]
    ELSE Get(Get(snapshot, "http", EmptyDict), "paused", FALSE)

\* async_turn_on (target TRUE) and async_turn_off (target FALSE) once the
\* pause or unpause call x has ended, at time t: when the call raised, the
\* handler raises and nothing is touched; otherwise the optimistic value is
\* the target and a refresh is due DelayedRefreshDelay later.
ToggledBeforeCall(target, x, optimistic, delayed, t) ==
    [raised |-> x.exc # "", optimistic |-> Some(target),
     delayed |-> delayed \cup {t + DelayedRefreshDelay}]
Toggled(target, x, optimistic, delayed, t) ==
    IF x.exc # ""
    THEN [raised |-> TRUE, optimistic |-> optimistic, delayed |-> delayed]
    ELSE [raised |-> FALSE, optimistic |-> Some(target),
          delayed |-> delayed \cup {t + DelayedRefreshDelay}]

\* ---------------------------------------------------------- the game server
\* The scenario clock of a running game advances with real time: tenths of
\* a second per half second.
TickAdvance == 5
\* The options form takes a poll interval of 5 s at least (half seconds).
MinPollInterval == 10

OkReply(text) == [transport |-> "ok", status |-> 200, text |-> text]

\* return tostring(getScenarioTime() ~= nil and getPlayerShip(-1) ~= nil)
HasGameScript == OkReply(Plain(Str("true")))

\* return tostring(getScenarioTime() or '')
ScenarioTimeScript(time) == OkReply(Plain(Num(time)))

\* The pause script: tostring(getGameSpeed()==0) where getGameSpeed is
\* defined, 'false' where it is not
PauseScript(defined, paused) ==
    OkReply(Plain(Str(IF defined /\ paused THEN "true" ELSE "false")))

\* pauseGame() and unpauseGame(): the server runs the script and answers, or
\* fails without running it
CommandResponses ==
    {OkReply(Plain(Str(""))),
     [transport |-> "ok", status |-> 500, text |-> Plain(Str("Internal Server Error"))]}

\* ------------------------------------------------------------ entry set-up
DEFAULT_POLL_INTERVAL == 10

\* The options async_setup_entry copies into the dict it gives the
\* coordinator as its _config
SetupConfig(options) ==
    Put(Put(EmptyDict, "poll_interval", Get(options, "poll_interval", 10)),
        "sacn_universe", Get(options, "sacn_universe", Universe))

\* ------------------------------------------------------------------- state
VARIABLES
    now,                     \* time.monotonic()
    sacn_data,               \* SACNListener._data
    last_sacn_refresh_at,    \* coordinator._last_sacn_refresh_at
    last_sacn_request_at,    \* when on_sacn_data last requested a refresh, None
                             \* before the first request (observation)
    refresh_requested,       \* a refresh request is pending with the platform
    last_scenario_time,      \* coordinator._last_scenario_time
    last_scenario_time_at,   \* coordinator._last_scenario_time_at
    last_inferred_paused,    \* coordinator._last_inferred_paused
    running_count,           \* coordinator._running_count
    pc,                      \* the call the running cycle awaits, or "idle"
    data,                    \* the dict _async_update_data is building
    paused_api,              \* its local paused_api
    coordinator_data,        \* coordinator.data, the published snapshot
    last_update_success,     \* coordinator.last_update_success
    event,                   \* what the last step did (observation)
    raw_log,                 \* SpecInfer: raw class of the last recomputed
                             \* sample, as the debug line logs it
    good_samples,            \* SpecInfer: samples since the last reset, while
                             \* every one was spaced and advancing; -1 otherwise
    cycle_errors,            \* an exec_lua of the running cycle raised EEAPIError
    optimistic_paused,       \* switch._optimistic_paused
    delayed_refresh,         \* due times of the switch's pending call_later
    switch_call,             \* the toggle awaiting its RPC: "none", "on", "off"
    timer_at,                \* when the platform's timer last polled, None
                             \* before it did
    game_paused,             \* the game server: the game is paused
    game_time,               \* the game server: getScenarioTime()
    speed_api,               \* the game server: getGameSpeed is defined
    entry_options,           \* config_entry.options
    config,                  \* coordinator._config
    sacn_tasks,              \* the _packet_received tasks created and not run
    sacn_received            \* payloads of the accepted packets, in arrival
                             \* order (observation)

vars ==
    <<now, sacn_data, last_sacn_refresh_at, last_sacn_request_at,
      refresh_requested, last_scenario_time, last_scenario_time_at, last_inferred_paused,
      running_count, pc, data, paused_api, coordinator_data,
      last_update_success, event, raw_log, good_samples, cycle_errors,
      optimistic_paused, delayed_refresh, switch_call, timer_at, game_paused,
      game_time, speed_api, entry_options, config, sacn_tasks, sacn_received>>

inferVars ==
    <<last_scenario_time, last_scenario_time_at, last_inferred_paused,
      running_count>>
observed == <<raw_log, good_samples>>
sacnVars == <<sacn_data, last_sacn_refresh_at, last_sacn_request_at>>
cycleVars == <<pc, data, paused_api, cycle_errors>>
published == <<coordinator_data, last_update_success>>
switchVars == <<optimistic_paused, delayed_refresh, switch_call>>
gameVars == <<game_paused, game_time, speed_api>>
entryVars == <<entry_options, config>>
taskVars == <<sacn_tasks, sacn_received>>
\* what the fusion cycle, the listener and the client do not touch
aroundVars == <<switchVars, timer_at, gameVars, entryVars, taskVars>>

NoEvent == [op |-> "none"]

\* The Inferencer's fields now
Inferencer ==
    InferState(last_scenario_time, last_scenario_time_at, last_inferred_paused,
               running_count)

SetInferencer(s) ==
    /\ last_scenario_time' = s.last_scenario_time
    /\ last_scenario_time_at' = s.last_scenario_time_at
    /\ last_inferred_paused' = s.last_inferred_paused
    /\ running_count' = s.running_count

\* entity.available
Available == last_update_success

\* ------------------------------------------------------------ server replies
ClientError == [transport |-> "ClientError", status |-> 0, text |-> Plain(Str(""))]
TimeoutError == [transport |-> "TimeoutError", status |-> 0, text |-> Plain(Str(""))]

Responses(texts) ==
    {[transport |-> "ok", status |-> 200, text |-> t] : t \in texts}
    \cup {[transport |-> "ok", status |-> 500, text |-> Plain(Str("Internal Server Error"))],
          [transport |-> "ok", status |-> 200, text |-> Plain(Str("{\"ERROR\": \"no game\"}"))],
          ClientError, TimeoutError}

\* The replies the fusion cycles are explored with.  The queries after the
\* pause query are explored with one good reply and a timeout.
HasGameTexts == {Plain(Str(t)) : t \in {"true", "false", "True", "\"true\"", ""}}
ScenarioTexts ==
    {Plain(Num(0)), Plain(Num(PauseThreshold)), Plain(Str("")), Plain(Str("nope"))}
PausedTexts == {Plain(Str(t)) : t \in {"true", "false", "TRUE", "nil"}}
VictoryTexts ==
    {Plain(Str(t)) : t \in {"", "nil", "Nil", "Human Navy", "\"Human Navy\"", "Kraylor"}}
CountResponses ==
    {[transport |-> "ok", status |-> 200, text |-> Plain(Num(15))], TimeoutError}
ShipResponses ==
    {[transport |-> "ok", status |-> 200,
      text |-> <<Str("Apollo"), Str("Atlantis"), Str("A5"), Num(20), Num(0),
                 Str("nope"), Num(15), Str(""), Num(100)>>],
     TimeoutError}

\* The payloads the fusion cycles are explored with: none and one slot.
DmxPayloads == {<<>>, <<MaxByte>>}

\* ------------------------------------------------------------- initially
\* config entry options as _create_entry stores them
InitialOptions ==
    Put(Put(Put(EmptyDict, "poll_interval", DEFAULT_POLL_INTERVAL),
            "sacn_universe", Universe), "enable_exec_lua", FALSE)

\* Everything but the game server's build
InitProgram ==
    /\ now = 0
    /\ sacn_data = InitialSacnData
    /\ last_sacn_refresh_at = 0
    /\ last_sacn_request_at = None
    /\ refresh_requested = FALSE
    /\ last_scenario_time = None
    /\ last_scenario_time_at = 0
    /\ last_inferred_paused = None
    /\ running_count = 0
    /\ pc = "idle"
    /\ data = EmptyDict
    /\ paused_api = FALSE
    /\ coordinator_data = EmptyDict
    /\ last_update_success = TRUE
    /\ event = NoEvent
    /\ raw_log = "none"
    /\ good_samples = 0
    /\ cycle_errors = FALSE
    /\ optimistic_paused = None
    /\ delayed_refresh = {}
    /\ switch_call = "none"
    /\ timer_at = None
    /\ game_paused = FALSE
    /\ game_time = 0
    /\ entry_options = InitialOptions
    /\ config = SetupConfig(InitialOptions)
    /\ sacn_tasks = <<>>
    /\ sacn_received = <<>>

\* A headless server: getGameSpeed is not defined
Init == InitProgram /\ speed_api = FALSE

\* ------------------------------------------------------------------ actions
\* Real time passes.
Tick ==
    /\ now < MaxTime
    /\ now' = now + 1
    /\ event' = NoEvent
    /\ UNCHANGED <<sacnVars, refresh_requested, inferVars, observed, cycleVars,
                   published, aroundVars>>

\* _packet_received(universe, dmx), with the callback on_sacn_data it calls.
PacketReceived(universe, dmx) ==
    LET e == PacketEffect(universe, dmx, sacn_data, now, last_sacn_refresh_at,
                          FALSE)
    IN  /\ sacn_data' = e.data
        /\ last_sacn_refresh_at' = e.last
        /\ last_sacn_request_at' =
               IF e.request THEN Some(now) ELSE last_sacn_request_at
        /\ refresh_requested' = (refresh_requested \/ e.request)
        /\ event' = NoEvent
        /\ UNCHANGED <<now, inferVars, observed, cycleVars, published, aroundVars>>

\* _async_update_data runs up to its first await; a pending request is
\* served by the cycle.
BeginCycle ==
    /\ pc = "idle"
    /\ pc' = "has_game"
    /\ data' = NewData(sacn_data)
    /\ paused_api' = FALSE
    /\ cycle_errors' = FALSE
    /\ refresh_requested' = FALSE
    /\ event' = NoEvent
    /\ UNCHANGED <<now, sacnVars, inferVars, observed, published>>

\* The platform starts a fusion cycle (timer tick or pending request).
StartUpdate == BeginCycle /\ UNCHANGED aroundVars

\* The cycle ends: the platform stores what _async_update_data returned, or
\* records the failure when it raised UpdateFailed, and notifies the
\* entities unless the cycle failed as the one before did; the pause switch
\* then runs _handle_coordinator_update.
Finish(res, exc) ==
    /\ pc' = "idle"
    /\ data' = EmptyDict
    /\ paused_api' = FALSE
    /\ cycle_errors' = FALSE
    /\ coordinator_data' = IF res.raised THEN coordinator_data ELSE res.data
    /\ last_update_success' = ~res.raised
    /\ optimistic_paused' = IF ~res.raised \/ last_update_success
                            THEN HandleCoordinatorUpdate(optimistic_paused)
                            ELSE optimistic_paused
    /\ UNCHANGED <<now, sacnVars, refresh_requested, observed, delayed_refresh,
                   switch_call, timer_at, gameVars, entryVars, taskVars>>

FinishedEvent(res, exc, api, errors) ==
    [op |-> "finished", exc |-> exc, raised |-> res.raised, paused_api |-> api,
     errors |-> errors]

\* An awaited query raised exc: the except clauses run and the cycle ends.
Fail(exc) ==
    LET res == HandleException(data, exc)
    IN  /\ Finish(res, exc)
        /\ event' = FinishedEvent(res, exc, paused_api, cycle_errors)

\* The cycle goes on to its next await with data d.
Continue(d, next, err) ==
    /\ pc' = next
    /\ data' = d
    /\ cycle_errors' = (cycle_errors \/ err)
    /\ UNCHANGED <<now, sacnVars, refresh_requested, published, observed, aroundVars>>

SetHttp(d, k, v) == [d EXCEPT !.http = Put(d.http, k, v)]

\* get_has_game answers.
HasGameReply(resp) ==
    /\ pc = "has_game"
    /\ LET x == ExecLua(resp)
           r == GetHasGame(x)
           err == x.exc = "EEAPIError"
           d == SetHttp(SetHttp(data, "has_game", r.val), "server_reachable", TRUE)
       IN  IF r.exc # ""
           THEN Fail(r.exc) /\ UNCHANGED inferVars
           ELSE IF r.val
           THEN /\ Continue(d, "scenario_time", err)
                /\ event' = NoEvent
                /\ UNCHANGED <<inferVars, paused_api>>
           ELSE LET res == [raised |-> FALSE, data |-> NoGameData(d)]
                IN  /\ Finish(res, "")
                    /\ event' = FinishedEvent(res, "", paused_api, cycle_errors \/ err)
                    /\ SetInferencer(ResetInferState(Inferencer))

\* A query whose reply is only stored: query is the typed query, key the
\* key of data["http"] it fills, next the await that follows.
StoreReply(at, key, next, r, err) ==
    /\ pc = at
    /\ IF r.exc # ""
       THEN Fail(r.exc)
       ELSE /\ Continue(SetHttp(data, key, r.val), next, err)
            /\ event' = NoEvent
            /\ UNCHANGED paused_api
    /\ UNCHANGED inferVars

ScenarioTimeReply(resp) ==
    LET x == ExecLua(resp)
    IN  StoreReply("scenario_time", "scenario_time", "player_ship_count",
                   GetScenarioTime(x), x.exc = "EEAPIError")

PlayerShipCountReply(resp) ==
    LET x == ExecLua(resp)
    IN  StoreReply("player_ship_count", "player_ship_count", "is_paused",
                   GetPlayerShipCount(x), x.exc = "EEAPIError")

\* the good run of samples after a call of _infer_paused(scenario_time) at t
NextGoodSamples(scenario_time, t) ==
    IF scenario_time = None \/ good_samples < 0 THEN -1
    ELSE IF good_samples = 0 THEN 1
    ELSE IF /\ t - last_scenario_time_at >= MinElapsed
            /\ scenario_time[1] - last_scenario_time[1] >= PauseThreshold
    THEN IF good_samples < 3 THEN good_samples + 1 ELSE good_samples
    ELSE -1

\* the raw class the debug line logs when the call recomputes
NextRawLog(scenario_time, t) ==
    IF /\ scenario_time # None
       /\ last_scenario_time # None
       /\ t - last_scenario_time_at >= MinElapsed
    THEN IF scenario_time[1] - last_scenario_time[1] < PauseThreshold
         THEN "paused" ELSE "running"
    ELSE raw_log

\* is_paused answers; when it is not True, _infer_paused runs.
IsPausedReply(resp) ==
    /\ pc = "is_paused"
    /\ LET x == ExecLua(resp)
           r == IsPaused(x)
           scenario_time == data.http["scenario_time"]
           inf == InferPaused(scenario_time, now, Inferencer)
       IN  IF r.exc # ""
           THEN Fail(r.exc) /\ UNCHANGED inferVars
           ELSE IF r.val
           THEN /\ Continue(SetHttp(data, "paused", TRUE), "victory_faction",
                            x.exc = "EEAPIError")
                /\ paused_api' = TRUE
                /\ event' = NoEvent
                /\ UNCHANGED inferVars
           ELSE /\ Continue(SetHttp(data, "paused", inf.ret), "victory_faction",
                            x.exc = "EEAPIError")
                /\ paused_api' = FALSE
                /\ SetInferencer(inf.state)
                /\ event' = NoEvent

VictoryFactionReply(resp) ==
    LET x == ExecLua(resp)
    IN  StoreReply("victory_faction", "victory_faction", "total_objects",
                   GetVictoryFaction(x), x.exc = "EEAPIError")

TotalObjectsReply(resp) ==
    LET x == ExecLua(resp)
    IN  StoreReply("total_objects", "total_objects", "enemy_ship_count",
                   GetTotalObjects(x), x.exc = "EEAPIError")

EnemyShipCountReply(resp) ==
    LET x == ExecLua(resp)
    IN  StoreReply("enemy_ship_count", "enemy_ship_count", "friendly_station_count",
                   GetEnemyShipCount(x), x.exc = "EEAPIError")

FriendlyStationCountReply(resp) ==
    LET x == ExecLua(resp)
    IN  StoreReply("friendly_station_count", "friendly_station_count", "primary_ship",
                   GetFriendlyStationCount(x), x.exc = "EEAPIError")

\* get_primary_ship_info answers: the status is derived and the cycle returns.
PrimaryShipReply(resp) ==
    /\ pc = "primary_ship"
    /\ LET x == ExecLua(resp)
           r == GetPrimaryShipInfo(x)
           d == SetHttp(data, "primary_ship", r.val)
           res == [raised |-> FALSE,
                   data |-> [d EXCEPT !.game_status =
                                DeriveGameStatus(d.http["victory_faction"],
                                                 d.http["paused"])]]
       IN  IF r.exc # ""
           THEN Fail(r.exc)
           ELSE /\ Finish(res, "")
                /\ event' = FinishedEvent(res, "", paused_api,
                                          cycle_errors \/ x.exc = "EEAPIError")
    /\ UNCHANGED inferVars

Next ==
    \/ Tick
    \/ \E universe \in {Universe, Universe + 1}, dmx \in DmxPayloads :
           PacketReceived(universe, dmx)
    \/ StartUpdate
    \/ \E resp \in Responses(HasGameTexts) : HasGameReply(resp)
    \/ \E resp \in Responses(ScenarioTexts) : ScenarioTimeReply(resp)
    \/ \E resp \in CountResponses : PlayerShipCountReply(resp)
    \/ \E resp \in Responses(PausedTexts) : IsPausedReply(resp)
    \/ \E resp \in Responses(VictoryTexts) : VictoryFactionReply(resp)
    \/ \E resp \in CountResponses : TotalObjectsReply(resp)
    \/ \E resp \in CountResponses : EnemyShipCountReply(resp)
    \/ \E resp \in CountResponses : FriendlyStationCountReply(resp)
    \/ \E resp \in ShipResponses : PrimaryShipReply(resp)

Spec == Init /\ [][Next]_vars

\* ------------------------------------------------- the Inferencer on its own
\* _infer_paused driven by arbitrary samples at arbitrary times.
SampleTick ==
    /\ now < MaxSampleTime
    /\ now' = now + 1
    /\ event' = NoEvent
    /\ UNCHANGED <<sacnVars, refresh_requested, inferVars, observed, cycleVars,
                   published, aroundVars>>

\* One call of _infer_paused(scenario_time).
InferSample(scenario_time) ==
    LET inf == InferPaused(scenario_time, now, Inferencer)
    IN  /\ SetInferencer(inf.state)
        /\ good_samples' = NextGoodSamples(scenario_time, now)
        /\ raw_log' = NextRawLog(scenario_time, now)
        /\ event' = [op |-> "infer", scenario_time |-> scenario_time,
                     at |-> now, prev |-> Inferencer, ret |-> inf.ret,
                     prev_raw |-> raw_log]
        /\ UNCHANGED <<now, sacnVars, refresh_requested, cycleVars, published, aroundVars>>

\* A cycle without a game resets the Inferencer.
NoGameReset ==
    /\ SetInferencer(ResetInferState(Inferencer))
    /\ good_samples' = 0
    /\ event' = [op |-> "reset"]
    /\ UNCHANGED <<now, sacnVars, refresh_requested, raw_log, cycleVars, published, aroundVars>>

SampleTimes == {None} \cup {Some(n) : n \in 0..MaxScenario}

NextInfer ==
    \/ SampleTick
    \/ \E scenario_time \in SampleTimes : InferSample(scenario_time)
    \/ NoGameReset

SpecInfer == Init /\ [][NextInfer]_vars

\* --------------------------------------------------- the Decoder on its own
\* The listener fed with packets of any universe and payload, while time
\* passes; the callback is on_sacn_data or one that raises.
SacnTick ==
    /\ now < MaxSacnTime
    /\ now' = now + 1
    /\ event' = NoEvent
    /\ UNCHANGED <<sacnVars, refresh_requested, inferVars, observed, cycleVars,
                   published, aroundVars>>

\* One packet: _packet_received with the callback it calls.
Packet(universe, dmx, raises) ==
    LET e == PacketEffect(universe, dmx, sacn_data, now, last_sacn_refresh_at,
                          raises)
    IN  /\ sacn_data' = e.data
        /\ last_sacn_refresh_at' = e.last
        /\ last_sacn_request_at' =
               IF e.request THEN Some(now) ELSE last_sacn_request_at
        /\ refresh_requested' = (refresh_requested \/ e.request)
        /\ event' = [op |-> "packet", universe |-> universe, dmx |-> dmx,
                     at |-> now, prev |-> sacn_data,
                     prev_last |-> last_sacn_refresh_at,
                     prev_request |-> last_sacn_request_at,
                     prev_requested |-> refresh_requested,
                     calls |-> e.calls, arg |-> e.arg, raised |-> raises,
                     requested |-> e.request]
        /\ UNCHANGED <<now, inferVars, observed, cycleVars, published, aroundVars>>

\* The platform takes the pending request (the refresh itself is not part of
\* this specification).
RequestTaken ==
    /\ refresh_requested
    /\ refresh_requested' = FALSE
    /\ event' = NoEvent
    /\ UNCHANGED <<now, sacnVars, inferVars, observed, cycleVars, published, aroundVars>>

Bytes == {0, MaxByte}

\* every payload of at most MaxDmxLen slots, and one longer than the table
SacnPayloads ==
    UNION {[1..n -> Bytes] : n \in 0..MaxDmxLen}
    \cup {[i \in 1..13 |-> IF i = 13 THEN 0 ELSE MaxByte]}

NextSacn ==
    \/ SacnTick
    \/ \E universe \in {Universe, Universe + 1}, dmx \in SacnPayloads,
          raises \in BOOLEAN : Packet(universe, dmx, raises)
    \/ RequestTaken

SpecSacn == Init /\ [][NextSacn]_vars

\* ------------------------------------------------ the RPC client on its own
\* exec_lua and the typed queries applied to what the transport delivers.
ShipText(ammo, rep) ==
    <<Str("Apollo"), Str("Atlantis"), Str("A5"), ammo, Num(0), Str("nope"),
      Num(15), Str(""), rep>>

ApiTexts ==
    {Plain(Str(t)) : t \in {"true", " true ", "\"true\"", "True", "false", "",
                            " ", "nil", "nope", "inf", "Human Navy",
                            "{\"result\": 1}", "{oops"}}
    \cup {Plain(Num(n)) : n \in {0, 15, -15}}
    \cup {ShipText(Num(20), Num(100)), ShipText(Str("inf"), Num(100)),
          ShipText(Num(20), Str("inf")), <<Str("Apollo"), Str("Atlantis")>>}

ApiResponses == Responses(ApiTexts)

Queries ==
    {"get_has_game", "get_scenario_time", "get_player_ship_count",
     "get_victory_faction", "is_paused", "get_total_objects",
     "get_enemy_ship_count", "get_friendly_station_count",
     "get_primary_ship_info"}

NumericQueries ==
    {"get_scenario_time", "get_player_ship_count", "get_total_objects",
     "get_enemy_ship_count", "get_friendly_station_count"}

\* the typed query of that name, given the outcome x of its exec_lua
TypedQuery(query, x) ==
    CASE query = "get_has_game" -> GetHasGame(x)
      [] query = "get_scenario_time" -> GetScenarioTime(x)
      [] query = "get_player_ship_count" -> GetPlayerShipCount(x)
      [] query = "get_victory_faction" -> GetVictoryFaction(x)
      [] query = "is_paused" -> IsPaused(x)
      [] query = "get_total_objects" -> GetTotalObjects(x)
      [] query = "get_enemy_ship_count" -> GetEnemyShipCount(x)
      [] query = "get_friendly_station_count" -> GetFriendlyStationCount(x)
      [] query = "get_primary_ship_info" -> GetPrimaryShipInfo(x)

\* the value a query returns when its exec_lua raises EEAPIError
SafeDefault(query) ==
    CASE query \in {"get_has_game", "is_paused"} -> FALSE
      [] query \in {"get_scenario_time", "get_victory_faction"} -> None
      [] query = "get_primary_ship_info" -> EmptyShipInfo
      [] OTHER -> 0

\* One call of exec_lua.
ExecLuaCall(resp) ==
    /\ event' = [op |-> "exec_lua", resp |-> resp, out |-> ExecLua(resp)]
    /\ UNCHANGED <<now, sacnVars, refresh_requested, inferVars, observed,
                   cycleVars, published, aroundVars>>

\* One call of a typed query.
QueryCall(query, resp) ==
    /\ event' = [op |-> "query", query |-> query, resp |-> resp,
                 out |-> TypedQuery(query, ExecLua(resp))]
    /\ UNCHANGED <<now, sacnVars, refresh_requested, inferVars, observed,
                   cycleVars, published, aroundVars>>

NextApi ==
    \/ \E resp \in ApiResponses : ExecLuaCall(resp)
    \/ \E query \in Queries, resp \in ApiResponses : QueryCall(query, resp)

SpecApi == Init /\ [][NextApi]_vars

\* ------------------------------------------ mutating operations on their own
\* The operations that interpolate a free-text parameter, applied to every
\* text of at most MaxStrLen items.
Alphabet == {BS, QT, "a"}
Texts == UNION {[1..k -> Alphabet] : k \in 0..MaxStrLen}
Coords == {0, 5}
Percents == {-10, 0, 50, 100, 150}
WeaponCounts == {<<0, 0, 0, 0, 0>>, <<2, 0, 0, 0, 0>>, <<0, 0, 1, 0, 3>>}

\* One mutating operation was called with the free texts given (after their
\* defaults) and the numbers given.  The operations keep no state, so each
\* call is explored from the initial state (Uncalled in NextScript).
Mutated(method, texts, numbers, sent) ==
    /\ event' = [op |-> "script", method |-> method, texts |-> texts,
                 given |-> numbers, script |-> sent.script,
                 escaped |-> sent.escaped, numbers |-> sent.numbers]
    /\ UNCHANGED <<now, sacnVars, refresh_requested, inferVars, observed,
                   cycleVars, published, aroundVars>>

GlobalMessage(message) ==
    Mutated("global_message", <<message>>, <<>>, GlobalMessageScript(message))

Victory(faction) ==
    Mutated("victory", <<OrDefault(faction, Lit("Human Navy"))>>, <<>>,
            VictoryScript(faction))

SpawnPlayerShip(template, callsign, faction, x, y) ==
    Mutated("spawn_player_ship",
            <<OrDefault(faction, Lit("Human Navy")),
              OrDefault(template, Lit("Atlantis")),
              OrDefault(callsign, Lit("Epsilon"))>>, <<x, y>>,
            SpawnPlayerShipScript(template, callsign, faction, x, y))

SpawnCpuShip(template, faction, x, y, order) ==
    Mutated("spawn_cpu_ship",
            <<OrDefault(faction, Lit("Kraylor")),
              OrDefault(template, Lit("Adder MK3"))>>, <<x, y>>,
            SpawnCpuShipScript(template, faction, x, y, order))

SpawnStation(template, faction, x, y) ==
    Mutated("spawn_station",
            <<OrDefault(faction, Lit("Human Navy")),
              OrDefault(template, Lit("Small Station"))>>, <<x, y>>,
            SpawnStationScript(template, faction, x, y))

SendCommsMessage(callsign, message) ==
    Mutated("send_comms_message", <<callsign, message>>, <<>>,
            SendCommsMessageScript(callsign, message))

ModifyHull(callsign, value) ==
    Mutated("modify_hull", <<callsign>>, <<value>>, ModifyHullScript(callsign, value))

ModifyShields(callsign, front, rear) ==
    Mutated("modify_shields", <<callsign>>, <<front, rear>>,
            ModifyShieldsScript(callsign, front, rear))

GiveWeapons(callsign, counts) ==
    Mutated("give_weapons", <<callsign>>, counts, GiveWeaponsScript(callsign, counts))

\* No operation was called yet.
Uncalled == event = NoEvent

NextScript ==
    \/ Uncalled /\ \E message \in Texts : GlobalMessage(message)
    \/ Uncalled /\ \E faction \in Texts : Victory(faction)
    \/ Uncalled /\ \E template \in Texts, callsign \in Texts, faction \in Texts,
          x \in Coords, y \in Coords :
           SpawnPlayerShip(template, callsign, faction, x, y)
    \/ Uncalled /\ \E template \in Texts, faction \in Texts, x \in Coords, y \in Coords,
          order \in {"idle", "roam"} :
           SpawnCpuShip(template, faction, x, y, order)
    \/ Uncalled /\ \E template \in Texts, faction \in Texts, x \in Coords, y \in Coords :
           SpawnStation(template, faction, x, y)
    \/ Uncalled /\ \E callsign \in Texts, message \in Texts :
           SendCommsMessage(callsign, message)
    \/ Uncalled /\ \E callsign \in Texts, value \in Percents : ModifyHull(callsign, value)
    \/ Uncalled /\ \E callsign \in Texts, front \in Percents, rear \in Percents :
           ModifyShields(callsign, front, rear)
    \/ Uncalled /\ \E callsign \in Texts, counts \in WeaponCounts :
           GiveWeapons(callsign, counts)

SpecScript == Init /\ [][NextScript]_vars

\* ------------------------------------------------- the decoder on its own
\* _decode_dmx_value applied to every byte and to the output ranges of the
\* channel table together with ranges that do not start at 0.
AllBytes == 0..MaxByte
TableRanges ==
    {<<SACN_CHANNEL_SPEC[i].min_out, SACN_CHANNEL_SPEC[i].max_out>> :
        i \in DOMAIN SACN_CHANNEL_SPEC}
DecodeRanges == TableRanges \cup {<<-1, 1>>, <<1, 4>>, <<2, 2>>}

Decode(raw, min_out, max_out) ==
    /\ event' = [op |-> "decode", raw |-> raw, min_out |-> min_out,
                 max_out |-> max_out,
                 out |-> DecodeDmxValue(raw, min_out, max_out)]
    /\ UNCHANGED <<now, sacnVars, refresh_requested, inferVars, observed,
                   cycleVars, published, aroundVars>>

NextDecode ==
    Uncalled /\ \E raw \in AllBytes, range \in DecodeRanges :
                   Decode(raw, range[1], range[2])

SpecDecode == Init /\ [][NextDecode]_vars

\* ---------------------------------------------------- the pause switch
\* The fusion cycle polling a game that runs or is paused, with the pause
\* switch, the buttons and the telemetry callback asking for refreshes.  The
\* game is there and the server answers every query; only the switch's own
\* command may fail.
InitSwitch == InitProgram /\ speed_api \in BOOLEAN

\* Real time passes, once every call_later that is due has run.  The clock
\* is coarse: a cycle and a command end within the instant they began in.
SwitchTick ==
    /\ now < MaxSwitchTime
    /\ pc = "idle"
    /\ switch_call = "none"
    /\ \A due \in delayed_refresh : due > now
    /\ now' = now + 1
    /\ game_time' = IF game_paused THEN game_time ELSE game_time + TickAdvance
    /\ event' = NoEvent
    /\ UNCHANGED <<sacnVars, refresh_requested, inferVars, observed, cycleVars,
                   published, switchVars, timer_at, game_paused, speed_api,
                   entryVars, taskVars>>

\* The platform's timer fires: a poll every update_interval.
TimerPoll ==
    /\ IF timer_at = None THEN TRUE ELSE now - timer_at[1] >= MinPollInterval
    /\ BeginCycle
    /\ timer_at' = Some(now)
    /\ UNCHANGED <<switchVars, gameVars, entryVars, taskVars>>

\* The platform serves a pending refresh request.
RequestedPoll ==
    /\ refresh_requested
    /\ BeginCycle
    /\ UNCHANGED aroundVars

\* A button is pressed or a service called: the command is sent and
\* async_request_refresh is called.
CommandRefresh ==
    /\ ~refresh_requested
    /\ refresh_requested' = TRUE
    /\ event' = NoEvent
    /\ UNCHANGED <<now, sacnVars, inferVars, observed, cycleVars, published,
                   aroundVars>>

\* async_turn_on or async_turn_off is called and awaits its command.
ToggleCall(target) ==
    /\ switch_call = "none"
    /\ Cardinality(delayed_refresh) < MaxPending
    /\ switch_call' = IF target THEN "on" ELSE "off"
    /\ event' = NoEvent
    /\ UNCHANGED <<now, sacnVars, refresh_requested, inferVars, observed,
                   cycleVars, published, optimistic_paused, delayed_refresh,
                   timer_at, gameVars, entryVars, taskVars>>

\* The command ends: the server has run it and answered, or has failed.
ToggleReply(resp) ==
    /\ switch_call # "none"
    /\ LET target == switch_call = "on"
           x == ExecLua(resp)
           r == Toggled(target, x, optimistic_paused, delayed_refresh, now)
       IN  /\ optimistic_paused' = r.optimistic
           /\ delayed_refresh' = r.delayed
           /\ game_paused' = IF x.exc = "" THEN target ELSE game_paused
           /\ event' = [op |-> "toggle", target |-> target, raised |-> r.raised]
    /\ switch_call' = "none"
    /\ UNCHANGED <<now, sacnVars, refresh_requested, inferVars, observed,
                   cycleVars, published, timer_at, game_time, speed_api,
                   entryVars, taskVars>>

\* A call_later of the switch is due: _delayed_refresh.
DelayedRefresh ==
    /\ \E due \in delayed_refresh :
           /\ due <= now
           /\ delayed_refresh' = delayed_refresh \ {due}
    /\ refresh_requested' = TRUE
    /\ event' = NoEvent
    /\ UNCHANGED <<now, sacnVars, inferVars, observed, cycleVars, published,
                   optimistic_paused, switch_call, timer_at, gameVars,
                   entryVars, taskVars>>

NextSwitch ==
    \/ SwitchTick
    \/ TimerPoll
    \/ RequestedPoll
    \/ CommandRefresh
    \/ \E target \in BOOLEAN : ToggleCall(target)
    \/ \E resp \in CommandResponses : ToggleReply(resp)
    \/ DelayedRefresh
    \/ PacketReceived(Universe, <<0>>)
    \/ HasGameReply(HasGameScript)
    \/ ScenarioTimeReply(ScenarioTimeScript(game_time))
    \/ PlayerShipCountReply(OkReply(Plain(Num(10))))
    \/ IsPausedReply(PauseScript(speed_api, game_paused))
    \/ VictoryFactionReply(OkReply(Plain(Str(""))))
    \/ TotalObjectsReply(OkReply(Plain(Num(10))))
    \/ EnemyShipCountReply(OkReply(Plain(Num(10))))
    \/ FriendlyStationCountReply(OkReply(Plain(Num(10))))
    \/ PrimaryShipReply(OkReply(ShipText(Num(20), Num(100))))

SpecSwitch == InitSwitch /\ [][NextSwitch]_vars

\* ------------------------------------------------- the listener's tasks
\* _on_datagram creates one _packet_received task per datagram; the event
\* loop runs the tasks in the order they were created, and a task runs to
\* its end without suspending: the lock is free whenever a task reaches it,
\* because no holder suspends.  Readers run between tasks.
TaskPackets ==
    {[universe |-> Universe, dmx |-> d] : d \in UNION {[1..n -> Bytes] : n \in 0..2}}
    \cup {[universe |-> Universe + 1, dmx |-> <<MaxByte>>]}

\* A datagram arrives: asyncio.create_task(self._packet_received(...)).
OnDatagram(packet) ==
    /\ Len(sacn_received) < MaxPackets
    /\ sacn_tasks' = Append(sacn_tasks, packet)
    /\ sacn_received' = Append(sacn_received, packet)
    /\ event' = NoEvent
    /\ UNCHANGED <<now, sacnVars, refresh_requested, inferVars, observed,
                   cycleVars, published, switchVars, timer_at, gameVars,
                   entryVars>>

\* The oldest task runs: _packet_received with the callback it calls.
RunTask ==
    /\ sacn_tasks # <<>>
    /\ LET packet == Head(sacn_tasks)
           e == PacketEffect(packet.universe, packet.dmx, sacn_data, now,
                             last_sacn_refresh_at, FALSE)
       IN  /\ sacn_data' = e.data
           /\ last_sacn_refresh_at' = e.last
           /\ last_sacn_request_at' =
                  IF e.request THEN Some(now) ELSE last_sacn_request_at
           /\ refresh_requested' = (refresh_requested \/ e.request)
           /\ event' = [op |-> "task", calls |-> e.calls, arg |-> e.arg]
    /\ sacn_tasks' = Tail(sacn_tasks)
    /\ UNCHANGED <<now, inferVars, observed, cycleVars, published, switchVars,
                   timer_at, gameVars, entryVars, sacn_received>>

\* A reader calls get_data(), as a fusion cycle does when it starts.
GetData ==
    /\ event' = [op |-> "get_data", map |-> sacn_data]
    /\ UNCHANGED <<now, sacnVars, refresh_requested, inferVars, observed,
                   cycleVars, published, aroundVars>>

NextTasks ==
    \/ \E packet \in TaskPackets : OnDatagram(packet)
    \/ RunTask
    \/ GetData

SpecTasks == Init /\ [][NextTasks]_vars

\* ------------------------------------------- the options and exec_lua service
\* What the options form accepts: vol.Range(5, 120), vol.Range(1, 63999), bool
PollIntervals == {5, DEFAULT_POLL_INTERVAL, 120}
Universes == {1, Universe}
OptionInputs ==
    {Put(Put(Put(EmptyDict, "poll_interval", p), "sacn_universe", u),
         "enable_exec_lua", e) :
        p \in PollIntervals, u \in Universes, e \in BOOLEAN}
LuaCodes == {"return 1", "pauseGame()"}

\* coord._config.get(CONF_ENABLE_EXEC_LUA, False)
ExecLuaEnabled(cfg) == Get(cfg, "enable_exec_lua", FALSE)

\* The exec_lua service handler: what it raises and the code it sends
ExecLuaService(cfg, code) ==
    IF ~ExecLuaEnabled(cfg)
    THEN [exc |-> "ValueError", sent |-> None]
    ELSE [exc |-> "", sent |-> Some(code)]

\* The user submits the options form: the options flow ends with
\* async_create_entry(data=user_input), which becomes the entry's options.
OptionsSubmitted(user_input) ==
    /\ entry_options' = user_input
    /\ event' = [op |-> "options"]
    /\ UNCHANGED <<now, sacnVars, refresh_requested, inferVars, observed,
                   cycleVars, published, switchVars, timer_at, gameVars,
                   config, taskVars>>

\* async_setup_entry: the entry is set up (again) and a coordinator is built
\* with the dict made from the entry.
SetupEntry ==
    /\ config' = SetupConfig(entry_options)
    /\ event' = [op |-> "setup"]
    /\ UNCHANGED <<now, sacnVars, refresh_requested, inferVars, observed,
                   cycleVars, published, switchVars, timer_at, gameVars,
                   entry_options, taskVars>>

\* The exec_lua service is called with code.
ExecLuaServiceCall(code) ==
    LET r == ExecLuaService(config, code)
    IN  /\ event' = [op |-> "exec_lua_service", code |-> code, exc |-> r.exc,
                     sent |-> r.sent]
        /\ UNCHANGED <<now, sacnVars, refresh_requested, inferVars, observed,
                       cycleVars, published, aroundVars>>

NextOptions ==
    \/ \E user_input \in OptionInputs : OptionsSubmitted(user_input)
    \/ SetupEntry
    \/ \E code \in LuaCodes : ExecLuaServiceCall(code)

SpecOptions == Init /\ [][NextOptions]_vars

\* ------------------------------------------------------------ properties
\* A snapshot has been published
Published == DOMAIN coordinator_data # {}

\* The last step ended a cycle that returned its snapshot
JustPublished == event.op = "finished" /\ ~event.raised

\* The last step called _infer_paused
Inferred == event.op = "infer"

\* The call recomputed: a sample was stored and at least min_elapsed passed
Recomputed ==
    /\ Inferred
    /\ event.scenario_time # None
    /\ event.prev.last_scenario_time # None
    /\ event.at - event.prev.last_scenario_time_at >= MinElapsed

\* The scenario clock's advance between the stored sample and this one
Advance == event.scenario_time[1] - event.prev.last_scenario_time[1]

\* C1: in every published snapshot game_status is setup exactly when
\* http.has_game is false.
C1_SetupIffNoGame ==
    Published =>
        (coordinator_data.game_status = GAME_STATUS_SETUP
            <=> coordinator_data.http["has_game"] = FALSE)

\* a cycle that found no game has just published its snapshot
C1_Witness ==
    /\ JustPublished
    /\ coordinator_data.http["has_game"] = FALSE
    /\ coordinator_data.game_status = GAME_STATUS_SETUP
    /\ last_update_success

\* C2: in every published snapshot game_status is game_over_victory or
\* game_over_defeat exactly when http.victory_faction is not None; so with a
\* victory faction the status is never paused or playing.
C2_GameOverIffVictory ==
    Published =>
        (coordinator_data.game_status
             \in {GAME_STATUS_GAME_OVER_VICTORY, GAME_STATUS_GAME_OVER_DEFEAT}
            <=> Get(coordinator_data.http, "victory_faction", None) # None)

\* a snapshot with a victory faction whose paused fact is true
C2_Witness ==
    /\ Published
    /\ Get(coordinator_data.http, "victory_faction", None) # None
    /\ Get(coordinator_data.http, "paused", FALSE)
    /\ coordinator_data.game_status = GAME_STATUS_GAME_OVER_DEFEAT

\* C3 as stated: a published snapshot's status is paused exactly when a game
\* runs, it is not over and the Inferencer's last inferred value is paused.
C3_PausedIffEstimate ==
    JustPublished =>
        (coordinator_data.game_status = GAME_STATUS_PAUSED
            <=> /\ coordinator_data.http["has_game"]
                /\ Get(coordinator_data.http, "victory_faction", None) = None
                /\ last_inferred_paused = Some(TRUE))

\* C3 amended: a published snapshot's status is paused exactly when a game
\* runs, it is not over, and the pause query answered paused in that cycle or
\* the Inferencer's last inferred value is paused.
C3_PausedIffQueryOrEstimate ==
    JustPublished =>
        (coordinator_data.game_status = GAME_STATUS_PAUSED
            <=> /\ coordinator_data.http["has_game"]
                /\ Get(coordinator_data.http, "victory_faction", None) = None
                /\ (event.paused_api \/ last_inferred_paused = Some(TRUE)))

\* a paused snapshot that rests on the Inferencer alone
C3_Witness ==
    /\ JustPublished
    /\ coordinator_data.game_status = GAME_STATUS_PAUSED
    /\ ~event.paused_api
    /\ last_inferred_paused = Some(TRUE)

\* C4 (SpecInfer): when the last inferred value is paused, _infer_paused
\* returns false only for a recomputed raw-running sample whose preceding
\* recomputed sample was raw-running too.
C4_Hysteresis ==
    (Inferred /\ event.prev.last_inferred_paused = Some(TRUE) /\ ~event.ret)
        => /\ Recomputed
           /\ Advance >= PauseThreshold
           /\ event.prev_raw = "running"

\* the second of two running samples ends paused
C4_Witness ==
    /\ Inferred
    /\ event.prev.last_inferred_paused = Some(TRUE)
    /\ ~event.ret
    /\ event.prev_raw = "running"

\* C5 (SpecInfer): a sample at least min_elapsed after the stored one that
\* advanced by less than the threshold returns paused and zeroes the
\* counter, whatever was inferred before.
C5_RawPausedIsPaused ==
    (Recomputed /\ Advance < PauseThreshold)
        => /\ event.ret
           /\ running_count = 0
           /\ last_inferred_paused = Some(TRUE)

\* a stalled sample arrives while one running sample is counted
C5_Witness ==
    /\ Recomputed
    /\ Advance = 0
    /\ event.prev.running_count = 1
    /\ event.ret

\* C6 (SpecInfer): from a reset Inferencer, spaced and advancing samples
\* all return not paused.
C6_UnknownToRunning == (Inferred /\ good_samples >= 1) => ~event.ret

\* the third sample of such a run
C6_Witness == Inferred /\ good_samples = 3 /\ Recomputed /\ ~event.ret

\* C7 as stated (SpecInfer): a None sample resets the stored sample, the
\* counter and the last inferred value.
C7_NullResetsAll ==
    (Inferred /\ event.scenario_time = None)
        => /\ last_scenario_time = None
           /\ running_count = 0
           /\ last_inferred_paused = None

\* C7 amended (SpecInfer): a None sample resets the stored sample and the
\* counter, keeps the last inferred value and returns it (false if none).
C7_NullKeepsInferred ==
    (Inferred /\ event.scenario_time = None)
        => /\ last_scenario_time = None
           /\ running_count = 0
           /\ last_inferred_paused = event.prev.last_inferred_paused
           /\ event.ret = (event.prev.last_inferred_paused = Some(TRUE))

\* a None sample arrives while paused with one running sample counted
C7_Witness ==
    /\ Inferred
    /\ event.scenario_time = None
    /\ event.prev.running_count = 1
    /\ event.prev.last_inferred_paused = Some(TRUE)
    /\ event.ret

\* C8 (SpecInfer): a sample with no stored sample before it, or less than
\* min_elapsed after it, returns the last inferred value (false if none) and
\* leaves that value and the counter as they were.
C8_Sticky ==
    (/\ Inferred
     /\ event.scenario_time # None
     /\ \/ event.prev.last_scenario_time = None
        \/ event.at - event.prev.last_scenario_time_at < MinElapsed)
        => /\ event.ret = (event.prev.last_inferred_paused = Some(TRUE))
           /\ last_inferred_paused = event.prev.last_inferred_paused
           /\ running_count = event.prev.running_count

\* an advancing sample too soon after the stored one, while paused
C8_Witness ==
    /\ Inferred
    /\ event.scenario_time # None
    /\ event.prev.last_scenario_time # None
    /\ event.at - event.prev.last_scenario_time_at < MinElapsed
    /\ Advance >= PauseThreshold
    /\ event.prev.last_inferred_paused = Some(TRUE)
    /\ event.prev.running_count = 1

\* C9 as stated: a cycle one of whose exec_lua calls raised EEAPIError
\* publishes a snapshot with status setup and server_reachable false.
C9_ErrorMeansUnreachable ==
    (event.op = "finished" /\ event.errors)
        => /\ ~event.raised
           /\ coordinator_data.game_status = GAME_STATUS_SETUP
           /\ coordinator_data.http["server_reachable"] = FALSE

\* C10: a cycle that ends with an exception other than EEAPIError publishes
\* nothing: the snapshot stays as it was and the entities are unavailable;
\* they become available again only when a cycle returns a snapshot.
C10_HardFailure ==
    [][/\ (event'.op = "finished" /\ event'.exc \notin {"", "EEAPIError"})
           => /\ coordinator_data' = coordinator_data
              /\ ~last_update_success'
              /\ ~Available'
       /\ (~Available /\ Available')
           => (event'.op = "finished" /\ ~event'.raised)]_vars

\* a cycle fails hard after a snapshot of a running game was published
C10_Witness ==
    /\ event.op = "finished"
    /\ event.raised
    /\ Published
    /\ coordinator_data.http["has_game"]
    /\ ~Available

\* C11 as stated (SpecApi): exec_lua returns the reply text when the status
\* is 200 and the body is no JSON object with an "ERROR" key; for any other
\* status, for such a body and for every failure of the transport (connection
\* refused, timeout) it raises EEAPIError and nothing else.
C11_OnlyEEAPIError ==
    event.op = "exec_lua" =>
        IF /\ event.resp.transport = "ok"
           /\ event.resp.status = 200
           /\ ~IsErrorJson(event.resp.text)
        THEN event.out = Return(event.resp.text)
        ELSE event.out = Raise("EEAPIError")

\* C12 as stated (SpecApi): no typed query raises, whatever the reply text
\* and however exec_lua fails; a failed call, and "nope" to a numeric query,
\* give the safe default.
C12_QueriesNeverRaise ==
    event.op = "query" =>
        /\ event.out.exc = ""
        /\ (event.resp.transport # "ok" \/ event.resp.status # 200)
               => event.out.val = SafeDefault(event.query)
        /\ (event.query \in NumericQueries
                /\ event.resp.transport = "ok" /\ event.resp.status = 200
                /\ event.resp.text = Plain(Str("nope")))
               => event.out.val = SafeDefault(event.query)

\* the channel number of a channel name in the table
ChannelOf(name) ==
    SACN_CHANNEL_SPEC[CHOOSE i \in DOMAIN SACN_CHANNEL_NAMES :
                          SACN_CHANNEL_NAMES[i] = name].ch

\* The last step processed a packet
PacketSeen == event.op = "packet"

\* C15 (SpecSacn): a refresh request of the Decoder callback comes at least
\* 2 s after the callback's request before it, and an accepted packet at
\* least 2 s after the callback's last request does issue a request.
C15_Throttle ==
    PacketSeen =>
        /\ (event.requested /\ event.prev_request # None)
               => event.at - event.prev_request[1] >= SacnRefreshInterval
        /\ (/\ event.calls = 1 /\ ~event.raised
            /\ event.prev_request # None
            /\ event.at - event.prev_request[1] >= SacnRefreshInterval)
               => (event.requested /\ refresh_requested)

\* the second request of a feed, exactly 2 s after the first
C15_Witness ==
    /\ PacketSeen
    /\ event.requested
    /\ event.prev_request # None
    /\ event.at - event.prev_request[1] = SacnRefreshInterval

\* C16 (SpecSacn): a packet of another universe changes no channel, does
\* not call the callback and requests no refresh.
C16_MismatchDropped ==
    (PacketSeen /\ event.universe # Universe)
        => /\ sacn_data = event.prev
           /\ event.calls = 0
           /\ ~event.requested
           /\ last_sacn_refresh_at = event.prev_last
           /\ refresh_requested = event.prev_requested

\* a packet of another universe that carries values differing from the map,
\* at a time a refresh would be due
C16_Witness ==
    /\ PacketSeen
    /\ event.universe # Universe
    /\ Len(event.dmx) = 2
    /\ event.dmx[1] # event.prev["hull"]
    /\ event.at - event.prev_last >= SacnRefreshInterval
    /\ ~event.prev_requested

\* C17 (SpecSacn): a packet leaves every channel whose channel number is
\* beyond the payload's length as it was, and the map's keys are always the
\* 12 channel names.
C17_PartialUpdate ==
    /\ DOMAIN sacn_data = ChannelNames
    /\ Cardinality(DOMAIN sacn_data) = 12
    /\ PacketSeen =>
           \A name \in ChannelNames :
               ChannelOf(name) > Len(event.dmx)
                   => sacn_data[name] = event.prev[name]

\* a one-slot packet changes hull while frontShield keeps a value set before
C17_Witness ==
    /\ PacketSeen
    /\ event.universe = Universe
    /\ Len(event.dmx) = 1
    /\ sacn_data["hull"] # event.prev["hull"]
    /\ event.prev["frontShield"] = MaxByte
    /\ sacn_data["frontShield"] = MaxByte

\* C18 (SpecSacn): a packet of the configured universe with at least one
\* slot calls the callback once, with the map as the packet left it, which
\* holds the packet's values, also when the callback raises; any other
\* packet does not call it.
C18_CallbackOnce ==
    PacketSeen =>
        IF event.universe = Universe /\ Len(event.dmx) >= 1
        THEN /\ event.calls = 1
             /\ event.arg = Some(sacn_data)
             /\ \A name \in ChannelNames :
                    ChannelOf(name) <= Len(event.dmx)
                        => sacn_data[name] = event.dmx[ChannelOf(name)]
        ELSE event.calls = 0

\* the callback raised on a packet that changed the map
C18_Witness ==
    /\ PacketSeen
    /\ event.calls = 1
    /\ event.raised
    /\ sacn_data # event.prev
    /\ event.arg = Some(sacn_data)

\* The step replaces the published snapshot
Replaced ==
    \/ DOMAIN coordinator_data' # DOMAIN coordinator_data
    \/ coordinator_data' # coordinator_data

\* C14: a cycle takes the Decoder's map when it starts and its copy never
\* changes while the cycle runs; the published snapshot changes only when a
\* cycle returns, and then as a whole: to that cycle's copy of the
\* telemetry, the facts that cycle gathered and the status it derived.  So
\* no packet changes a snapshot, built or published.
C14_SnapshotImmutable ==
    [][/\ (pc = "idle" /\ pc' # "idle") => data'.sacn = sacn_data
       /\ (pc # "idle" /\ pc' # "idle") => data'.sacn = data.sacn
       /\ Replaced
              => /\ pc # "idle" /\ pc' = "idle"
                 /\ event'.op = "finished" /\ ~event'.raised
                 /\ coordinator_data'.sacn = data.sacn
                 /\ \A k \in DOMAIN data.http :
                        coordinator_data'.http[k] = data.http[k]
                 /\ coordinator_data'.game_status
                        \in {GAME_STATUS_SETUP, GAME_STATUS_PLAYING,
                             GAME_STATUS_PAUSED, GAME_STATUS_GAME_OVER_VICTORY,
                             GAME_STATUS_GAME_OVER_DEFEAT}]_vars

\* a cycle publishes the telemetry it took at its start although a packet
\* changed the Decoder's map while it ran
C14_Witness ==
    /\ JustPublished
    /\ coordinator_data.http["has_game"]
    /\ coordinator_data.sacn["hull"] = 0
    /\ sacn_data["hull"] = MaxByte

\* C19: a cycle whose has_game is false ends at that query, publishes the
\* facts zeroed and leaves the Inferencer's stored scenario time, last
\* inferred value and counter at their initial values.
C19_NoGameZeroes ==
    [][(/\ event'.op = "finished" /\ ~event'.raised
        /\ coordinator_data'.http["has_game"] = FALSE)
          => /\ pc = "has_game"
             /\ coordinator_data'.game_status = GAME_STATUS_SETUP
             /\ coordinator_data'.http =
                    [has_game |-> FALSE, server_reachable |-> TRUE,
                     scenario_time |-> None, player_ship_count |-> 0,
                     paused |-> FALSE, victory_faction |-> None,
                     total_objects |-> 0, enemy_ship_count |-> 0,
                     friendly_station_count |-> 0, primary_ship |-> EmptyDict]
             /\ last_scenario_time' = None
             /\ last_inferred_paused' = None
             /\ running_count' = 0]_vars

\* a cycle without a game ends after the Inferencer had stored a sample
C19_Witness ==
    /\ JustPublished
    /\ coordinator_data.http["has_game"] = FALSE
    /\ last_scenario_time_at > 0
    /\ last_scenario_time = None
    /\ last_inferred_paused = None

\* The last step called a mutating operation
Scripted == event.op = "script"

\* the backslashes right before position i of s
RECURSIVE BackslashesBefore(_, _)
BackslashesBefore(s, i) ==
    IF i > 1 /\ s[i - 1] = BS THEN 1 + BackslashesBefore(s, i - 1) ELSE 0

\* s with every backslash doubled and every double quote prefixed with one
RECURSIVE EscapedForm(_)
EscapedForm(s) ==
    IF s = <<>> THEN <<>>
    ELSE (IF Head(s) = BS THEN <<BS, BS>>
          ELSE IF Head(s) = QT THEN <<BS, QT>>
          ELSE <<Head(s)>>) \o EscapedForm(Tail(s))

\* The string literals the scripting language reads in a script: a double
\* quote opens one, a backslash inside takes the next item as it is, the
\* next double quote closes it.  open tells whether one is left unclosed.
RECURSIVE StringLiterals(_, _, _, _)
StringLiterals(rest, inside, cur, done) ==
    IF rest = <<>> THEN [literals |-> done, open |-> inside]
    ELSE IF ~inside
    THEN StringLiterals(Tail(rest), Head(rest) = QT, <<>>, done)
    ELSE IF Head(rest) = QT
    THEN StringLiterals(Tail(rest), FALSE, <<>>, Append(done, cur))
    ELSE IF Head(rest) = BS /\ Len(rest) >= 2
    THEN StringLiterals(Tail(Tail(rest)), TRUE, Append(cur, rest[2]), done)
    ELSE StringLiterals(Tail(rest), TRUE, Append(cur, Head(rest)), done)

\* the literals the operations write themselves
OwnLiterals == {<<"gm">>} \cup {<<WeaponNames[i]>> : i \in DOMAIN WeaponNames}

IsFreeText(l) == l \notin OwnLiterals

\* C20 (SpecScript): every free text of a mutating operation is interpolated
\* with each backslash doubled and each double quote prefixed with a
\* backslash; the escaped text has no double quote after an even number of
\* backslashes, so the script's string literals are exactly the texts given:
\* each is closed by the quote the client writes.
C20_Escaped ==
    Scripted =>
        /\ Len(event.escaped) = Len(event.texts)
        /\ \A k \in DOMAIN event.escaped :
               /\ event.escaped[k] = EscapedForm(event.texts[k])
               /\ \A i \in DOMAIN event.escaped[k] :
                      event.escaped[k][i] = QT
                          => BackslashesBefore(event.escaped[k], i) % 2 = 1
        /\ event.script # None
               => LET read == StringLiterals(event.script[1], FALSE, <<>>, <<>>)
                  IN  /\ ~read.open
                      /\ SelectSeq(read.literals, IsFreeText) = event.texts

\* a message made of a backslash and a double quote has been sent
C20_Witness ==
    /\ Scripted
    /\ event.method = "send_comms_message"
    /\ event.texts[2] = <<BS, QT>>
    /\ event.escaped[2] = <<BS, BS, BS, QT>>
    /\ event.script # None

\* what the claim says is interpolated for an input v
Clamped(v) == IF v < 0 THEN 0 ELSE IF v > 100 THEN 100 ELSE v

\* the numerals a script holds between "(" and ")" of its set call
Numerals(script) ==
    SelectSeq(script, LAMBDA item : item \in {ToString(v) : v \in Percents})

\* C21 (SpecScript): modify_hull and modify_shields interpolate 0 for an
\* input below 0, 100 for an input above 100 and the input itself otherwise,
\* front and rear each on its own; the script sent holds exactly these
\* numbers, in the order given.
C21_Clamped ==
    (Scripted /\ event.method \in {"modify_hull", "modify_shields"}) =>
        /\ Len(event.numbers) = Len(event.given)
        /\ \A k \in DOMAIN event.given :
               /\ event.numbers[k] = Clamped(event.given[k])
               /\ event.numbers[k] >= 0
               /\ event.numbers[k] <= 100
        /\ event.script # None
        /\ Numerals(event.script[1])
               = [k \in DOMAIN event.given |-> ToString(Clamped(event.given[k]))]

\* shields were set with a front below 0 and a rear above 100
C21_Witness ==
    /\ Scripted
    /\ event.method = "modify_shields"
    /\ event.given = <<-10, 150>>
    /\ event.numbers = <<0, 100>>

\* The last step decoded one byte
Decoded == event.op = "decode"

\* C22 (SpecDecode): with values in units of 1/255, a byte b decodes to
\* lo + (b / 255) * (hi - lo) for the range [lo, hi]: byte 0 gives lo, byte
\* 255 gives hi and every byte gives a value within [lo, hi].
C22_DecodeRange ==
    Decoded =>
        LET lo == event.min_out * MaxByte
            hi == event.max_out * MaxByte
        IN  /\ MaxByte * (event.out - lo) = event.raw * (hi - lo)
            /\ event.raw = 0 => event.out = lo
            /\ event.raw = MaxByte => event.out = hi
            /\ lo <= event.out
            /\ event.out <= hi

\* byte 255 was decoded for a range that does not start at 0
C22_Witness ==
    /\ Decoded
    /\ event.raw = MaxByte
    /\ event.min_out = 1
    /\ event.max_out = 4
    /\ event.out = 4 * MaxByte

\* C30 (SpecInfer): the Inferencer's consecutive-running counter is 0, 1 or
\* 2; it is 1 only while the last inferred value is paused, and it is 0
\* whenever the last inferred value is unknown.
C30_CounterRange ==
    /\ running_count \in 0..RunningNeeded
    /\ running_count = 1 => last_inferred_paused = Some(TRUE)
    /\ last_inferred_paused = None => running_count = 0

\* the second running sample in a row has ended an inferred pause
C30_Witness ==
    /\ Inferred
    /\ Recomputed
    /\ event.prev.running_count = 1
    /\ event.prev.last_inferred_paused = Some(TRUE)
    /\ running_count = RunningNeeded
    /\ last_inferred_paused = Some(FALSE)

\* The step ends a cycle that publishes a snapshot without a game
NoGamePublished ==
    /\ event'.op = "finished"
    /\ ~event'.raised
    /\ ~coordinator_data'.http["has_game"]

\* The step is the pause step of a cycle whose pause query did not answer
\* paused, taken while nothing has been inferred since the last reset
PauseStepAfterReset ==
    /\ pc = "is_paused"
    /\ pc' = "victory_faction"
    /\ ~paused_api'
    /\ last_inferred_paused = None

\* The step ends a cycle with a game whose pause query did not answer paused,
\* while nothing has been inferred since the last reset
PublishedAfterReset ==
    /\ event'.op = "finished"
    /\ ~event'.raised
    /\ coordinator_data'.http["has_game"]
    /\ ~event'.paused_api
    /\ last_inferred_paused' = None

\* what C29 says of the Inferencer: a cycle without a game resets it, the
\* first pause step after that gives false, and a pause step gives paused
\* again only when a sample stored at least min_elapsed before is there
ResetThenTwoSamples ==
    /\ NoGamePublished =>
           /\ last_scenario_time' = None
           /\ last_inferred_paused' = None
           /\ running_count' = 0
    /\ PauseStepAfterReset =>
           /\ last_scenario_time = None => ~data'.http["paused"]
           /\ data'.http["paused"] =>
                  /\ last_scenario_time # None
                  /\ now - last_scenario_time_at >= MinElapsed

\* C29 as stated: a cycle reporting no game resets the Inferencer; the first
\* following cycle with a game and an indeterminate pause query publishes
\* paused false and status playing, and paused comes back only from a later
\* such cycle at least 1 s after it.
C29_PlayingAfterReset ==
    [][/\ ResetThenTwoSamples
       /\ PublishedAfterReset =>
              /\ ~coordinator_data'.http["paused"]
              /\ coordinator_data'.game_status = GAME_STATUS_PLAYING]_vars

\* C29 amended: the same, the status being playing unless a victory faction
\* is reported, in which case the game is over.
C29_NotPausedAfterReset ==
    [][/\ ResetThenTwoSamples
       /\ PublishedAfterReset =>
              /\ ~coordinator_data'.http["paused"]
              /\ coordinator_data'.game_status # GAME_STATUS_PAUSED
              /\ coordinator_data'.http["victory_faction"] = None
                     => coordinator_data'.game_status = GAME_STATUS_PLAYING]_vars

\* the cycle that follows a published no-game cycle has taken its pause
\* step: it stored its sample and reads not paused
C29_Witness ==
    /\ pc = "victory_faction"
    /\ Published
    /\ ~coordinator_data.http["has_game"]
    /\ ~paused_api
    /\ ~data.http["paused"]
    /\ last_scenario_time # None
    /\ last_inferred_paused = None

\* The last step called the exec_lua service
ServiceCalled == event.op = "exec_lua_service"

\* The entry was set up with the options it has now
SetUpWithOptions == config = SetupConfig(entry_options)

\* C27 as stated (SpecOptions): while enable_exec_lua is disabled the service
\* call raises and sends nothing; once the option is enabled and the entry
\* set up with it, the call sends the code given.
C27_GatedByOption ==
    ServiceCalled =>
        /\ ~entry_options["enable_exec_lua"]
               => (event.exc = "ValueError" /\ event.sent = None)
        /\ (entry_options["enable_exec_lua"] /\ SetUpWithOptions)
               => (event.exc = "" /\ event.sent = Some(event.code))

\* Packet j of the arrival order is accepted and covers channel i of the table
Covers(j, i) ==
    /\ sacn_received[j].universe = Universe
    /\ SACN_CHANNEL_SPEC[i].ch <= Len(sacn_received[j].dmx)

\* The map that holds, for every channel, the decoded value of the last of
\* the first k packets received that covers it, and 0 when none does
LastWrites(k) ==
    [name \in ChannelNames |->
        LET i == CHOOSE x \in DOMAIN SACN_CHANNEL_NAMES : SACN_CHANNEL_NAMES[x] = name
            js == {j \in 1..k : Covers(j, i)}
        IN  IF js = {} THEN 0
            ELSE LET j == CHOOSE x \in js : \A y \in js : y <= x
                 IN  DecodeDmxValue(sacn_received[j].dmx[SACN_CHANNEL_SPEC[i].ch],
                                    SACN_CHANNEL_SPEC[i].min_out,
                                    SACN_CHANNEL_SPEC[i].max_out)]

\* A map a reader may see: whole packets applied, in arrival order
WholePackets(map) == \E k \in 0..Len(sacn_received) : map = LastWrites(k)

\* C24 (SpecTasks): once every task has run, each channel holds the decoded
\* value of the last received accepted packet that covers it; what get_data
\* gives a reader between tasks, and what the callback is given, is the map
\* after some number of whole packets in arrival order, never a part of one.
C24_LastWriteWins ==
    /\ sacn_tasks = <<>> => sacn_data = LastWrites(Len(sacn_received))
    /\ WholePackets(sacn_data)
    /\ event.op = "get_data" => WholePackets(event.map)
    /\ (event.op = "task" /\ event.calls = 1) =>
           event.arg = Some(LastWrites(Len(sacn_received) - Len(sacn_tasks)))

\* three packets were received and run: a two-slot one, a mismatching one
\* and a one-slot one that overwrote the first channel only
C24_Witness ==
    /\ sacn_tasks = <<>>
    /\ Len(sacn_received) = 3
    /\ sacn_received[1] = [universe |-> Universe, dmx |-> <<MaxByte, MaxByte>>]
    /\ sacn_received[2].universe # Universe
    /\ sacn_received[3] = [universe |-> Universe, dmx |-> <<0>>]
    /\ sacn_data["hull"] = 0
    /\ sacn_data["frontShield"] = MaxByte
    /\ event.op = "task"

\* C23 as stated (SpecSwitch): with a server whose pause query is determinate
\* (getGameSpeed defined), a cycle with a game publishes as paused fact the
\* answer of its pause query.
C23_DeterminateAnswerPublished ==
    (JustPublished /\ coordinator_data.http["has_game"] /\ speed_api)
        => coordinator_data.http["paused"] = event.paused_api

\* C25 as stated (SpecSwitch): a call of _infer_paused that finds a stored
\* sample comes at least min_elapsed after it, so it recomputes.
C25_SamplesSpaced ==
    [][(/\ pc = "is_paused"
        /\ pc' = "victory_faction"
        /\ ~paused_api'
        /\ last_scenario_time # None)
           => now - last_scenario_time_at >= MinElapsed]_vars

\* C28 as stated (SpecSwitch): once a pause command of the switch has
\* succeeded, while the game stays paused and the pause query is
\* indeterminate, is_on is true.
C28_StaysOn ==
    (game_paused /\ ~speed_api) => IsOn(optimistic_paused, coordinator_data)

\* The step ends a call of async_turn_on or async_turn_off
ToggleEnded == switch_call # "none" /\ switch_call' = "none"

\* The step ends a cycle and the entities are notified
Notified == event'.op = "finished" /\ (~event'.raised \/ last_update_success)

\* bool(coordinator.data.get("http", {}).get("paused"))
PublishedPaused(snapshot) == Get(Get(snapshot, "http", EmptyDict), "paused", FALSE)

\* C26 (SpecSwitch): when async_turn_on (async_turn_off) returns, is_on is
\* true (false) and a refresh is due 1.5 s later; when its command raises,
\* the optimistic value and the pending refreshes are as before; the
\* optimistic value changes at no other step until the entities are
\* notified, which drops it, and without it is_on is the published paused
\* fact; a pending refresh is requested at the instant it is due, not later.
C26_OptimisticSwitch ==
    [][/\ (ToggleEnded /\ ~event'.raised) =>
              /\ IsOn(optimistic_paused', coordinator_data') = (switch_call = "on")
              /\ delayed_refresh' = delayed_refresh \cup {now + DelayedRefreshDelay}
       /\ (ToggleEnded /\ event'.raised) =>
              UNCHANGED <<optimistic_paused, delayed_refresh>>
       /\ Notified => optimistic_paused' = None
       /\ (~ToggleEnded /\ ~Notified) => UNCHANGED optimistic_paused
       /\ optimistic_paused' = None =>
              IsOn(optimistic_paused', coordinator_data')
                  = PublishedPaused(coordinator_data')
       /\ (~ToggleEnded /\ delayed_refresh' # delayed_refresh) =>
              /\ now \in delayed_refresh
              /\ delayed_refresh' = delayed_refresh \ {now}
              /\ refresh_requested'
       /\ now' # now => \A due \in delayed_refresh : due > now]_vars

\* async_turn_on has returned while the published snapshot says not paused:
\* is_on is true and its refresh is pending
C26_Witness ==
    /\ event.op = "toggle"
    /\ event.target
    /\ ~event.raised
    /\ Published
    /\ ~PublishedPaused(coordinator_data)
    /\ IsOn(optimistic_paused, coordinator_data)
    /\ delayed_refresh = {now + DelayedRefreshDelay}

====
